---- MODULE Spec2Model ----
(***************************************************************************)
(* Camera session controller of src/src/components/CameraCapture.tsx.      *)
(*                                                                         *)
(* The component's React state, the two refs, the host's media streams and *)
(* the stream requests in flight are the state.  Every handler is written  *)
(* as an operator from a session record to the session record it leaves    *)
(* behind (the state after React has re-rendered and run its effects), and *)
(* the actions commit those operators where the rendered UI offers them.   *)
(* Strings the code slices or rewrites are sequences of characters.        *)
(***************************************************************************)
EXTENDS Integers, Sequences, FiniteSets, TLC

VARIABLES
    enumState,          \* position of getCameras: "pending", "done", "failed"
    cameras,            \* useState<CameraDevice[]>
    selectedCamera,     \* useState<string>, <<>> is ''
    stream,             \* useState<MediaStream | null>
    capturedImage,      \* useState<string | null>: the encoded image
    isLoading,          \* useState(false)
    error,              \* useState<string | null>
    cameraCapabilities, \* useState<CameraCapabilities | null>
    videoSrc,           \* videoRef.current.srcObject of the mounted <video>
    pending,            \* getUserMedia requests the host has not answered
    live,               \* ids of the host streams whose tracks are not stopped
    nextReq,            \* number of getUserMedia requests issued so far
    link,               \* the last <a download> clicked by downloadPhoto
    clock,              \* host time (ms) of the latest clock reading
    reported,           \* history: the devices enumerateDevices() resolved with
    sinceStop           \* history: stopCamera ran and no device was selected since

vars == <<enumState, cameras, selectedCamera, stream, capturedImage, isLoading,
          error, cameraCapabilities, videoSrc, pending, live, nextReq, link,
          clock, reported, sinceStop>>

-----------------------------------------------------------------------------
(* Bounds of the exploration *)

MaxDevices == 2
MaxRequests == 2
MaxTicks == 1
ClockStepMs == 30500

-----------------------------------------------------------------------------
(* Values *)

\* null of each nullable piece of state, and the falsy values the code tests
NoStream == [null |-> "stream"]
NoImage == [null |-> "capturedImage"]
NoError == "null"
NoCaps == [null |-> "cameraCapabilities"]
NoLink == [null |-> "link"]
EmptyString == <<>>
Absent == -1
NoMax == 0

EnumerateFailed == "Failed to enumerate cameras"
StartFailed == "Failed to start camera"

IdealWidth == 1920
IdealHeight == 1080
LabelIdChars == 8
TimestampChars == 19

Min(a, b) == IF a < b THEN a ELSE b

\* String.prototype.slice(from, to) for 0 <= from <= to
Slice(s, from, to) == SubSeq(s, from + 1, Min(to, Len(s)))

\* String.prototype.replace(/:/g, '-')
ReplaceColons(s) == [i \in 1..Len(s) |-> IF s[i] = ":" THEN "-" ELSE s[i]]

Digits == <<"0", "1", "2", "3", "4", "5", "6", "7", "8", "9">>

Pad2(n) == <<Digits[((n \div 10) % 10) + 1], Digits[(n % 10) + 1]>>

Pad3(n) == <<Digits[((n \div 100) % 10) + 1]>> \o Pad2(n % 100)

\* Date.prototype.toISOString() of a host time within the first day of the epoch
toISOString(t) ==
    <<"1", "9", "7", "0", "-", "0", "1", "-", "0", "1", "T">>
        \o Pad2((t \div 3600000) % 24) \o <<":">>
        \o Pad2((t \div 60000) % 60) \o <<":">>
        \o Pad2((t \div 1000) % 60) \o <<".">>
        \o Pad3(t % 1000) \o <<"Z">>

FileNamePrefix ==
    <<"c", "a", "m", "e", "r", "a", "-", "c", "a", "p", "t", "u", "r", "e", "-">>

FileNameSuffix == <<".", "p", "n", "g">>

\* the template literal of link.download, for a clock reading t
DownloadName(t) ==
    FileNamePrefix
        \o ReplaceColons(Slice(toISOString(t), 0, TimestampChars))
        \o FileNameSuffix

LabelPrefix == <<"C", "a", "m", "e", "r", "a", " ">>

LabelSuffix == <<".", ".", ".">>

\* CameraLabel with the slice forgotten: the whole deviceId in the label
CameraLabelWholeId(device) ==
    IF device.label # EmptyString
    THEN device.label
    ELSE LabelPrefix \o device.deviceId \o LabelSuffix

\* device.label || `Camera ${device.deviceId.slice(0, 8)}...`
CameraLabel(device) ==
    IF device.label # EmptyString
    THEN device.label
    ELSE LabelPrefix \o Slice(device.deviceId, 0, LabelIdChars) \o LabelSuffix

-----------------------------------------------------------------------------
(* The host *)

IdShort == <<"a">>
IdLong == <<"a", "b", "c", "d", "e", "f", "g", "h", "i">>
IdMic == <<"m">>
Front == <<"F", "r", "o", "n", "t">>

\* what enumerateDevices() can report: a camera with a short id, with or
\* without a label, an unlabelled camera with a long id, and a microphone
HostDevices ==
    { [deviceId |-> IdShort, label |-> EmptyString, kind |-> "videoinput"],
      [deviceId |-> IdShort, label |-> Front, kind |-> "videoinput"],
      [deviceId |-> IdLong, label |-> EmptyString, kind |-> "videoinput"],
      [deviceId |-> IdMic, label |-> EmptyString, kind |-> "audioinput"] }

\* the host gives each device of a list its own deviceId
DistinctIds(l) == \A i, j \in 1..Len(l) : l[i].deviceId = l[j].deviceId => i = j

HostDeviceLists ==
    { l \in UNION { [1..n -> HostDevices] : n \in 0..MaxDevices } : DistinctIds(l) }

HostMax == [width |-> 1280, height |-> 720]

\* what track.getCapabilities() can answer: it throws (the host has no such
\* method), or it reports width and height not at all, or each of them with
\* the stream's max or without a max
CapabilityReplies ==
    { [throws |-> TRUE, width |-> Absent, height |-> Absent],
      [throws |-> FALSE, width |-> Absent, height |-> Absent],
      [throws |-> FALSE, width |-> HostMax.width, height |-> HostMax.height],
      [throws |-> FALSE, width |-> NoMax, height |-> HostMax.height],
      [throws |-> FALSE, width |-> HostMax.width, height |-> NoMax] }

\* videoWidth x videoHeight of a <video>: the frame size of the stream it
\* plays, 0 x 0 when it has no srcObject
StreamFrame == [width |-> 640, height |-> 480]

VideoSize(src) ==
    IF src = NoStream THEN [width |-> 0, height |-> 0] ELSE StreamFrame

Times == { k * ClockStepMs : k \in 0..MaxTicks }

-----------------------------------------------------------------------------
(* The session and its handlers *)

Session ==
    [enumState |-> enumState, cameras |-> cameras,
     selectedCamera |-> selectedCamera, stream |-> stream,
     capturedImage |-> capturedImage, isLoading |-> isLoading, error |-> error,
     cameraCapabilities |-> cameraCapabilities, videoSrc |-> videoSrc,
     pending |-> pending, live |-> live, nextReq |-> nextReq, link |-> link]

Commit(s) ==
    /\ enumState' = s.enumState
    /\ cameras' = s.cameras
    /\ selectedCamera' = s.selectedCamera
    /\ stream' = s.stream
    /\ capturedImage' = s.capturedImage
    /\ isLoading' = s.isLoading
    /\ error' = s.error
    /\ cameraCapabilities' = s.cameraCapabilities
    /\ videoSrc' = s.videoSrc
    /\ pending' = s.pending
    /\ live' = s.live
    /\ nextReq' = s.nextReq
    /\ link' = s.link

\* {!capturedImage ? <video ref={videoRef}/> : <img/>}: videoRef.current is
\* the <video> while no image is shown and null while one is
VideoMounted(s) == s.capturedImage = NoImage

\* stream.getTracks().forEach(track => track.stop())
StopTracks(s, handle) == [s EXCEPT !.live = @ \ {handle.id}]

IsVideoInput(device) == device.kind = "videoinput"

\* startCamera with the teardown of the previous stream forgotten
startCameraKeepsTracks(s) ==
    [s EXCEPT
        !.isLoading = TRUE,
        !.error = NoError,
        !.pending = @ \cup {[id |-> s.nextReq + 1,
                             deviceId |-> s.selectedCamera]},
        !.nextReq = @ + 1]

\* startCamera up to its await: the closure's stream is the stream of the
\* render whose effect calls it, the request names that render's selection
startCamera(s) ==
    LET stopped == IF s.stream # NoStream THEN StopTracks(s, s.stream) ELSE s
    IN  [stopped EXCEPT
            !.isLoading = TRUE,
            !.error = NoError,
            !.pending = @ \cup {[id |-> s.nextReq + 1,
                                 deviceId |-> s.selectedCamera]},
            !.nextReq = @ + 1]

\* selectedCameraEffect without its dependency list: it runs after every render
selectedCameraEffectAlways(s, rendered) ==
    IF rendered.selectedCamera # EmptyString
    THEN startCamera(rendered)
    ELSE rendered

\* useEffect(..., [selectedCamera]) after a render that follows state s
selectedCameraEffect(s, rendered) ==
    IF rendered.selectedCamera # s.selectedCamera
          /\ rendered.selectedCamera # EmptyString
    THEN startCamera(rendered)
    ELSE rendered

\* getCamerasResolved selecting the last camera instead of the first
getCamerasSelectsLast(s, devices) ==
    LET videoDevices == SelectSeq(devices, IsVideoInput)
        listed == [i \in 1..Len(videoDevices) |->
                      [deviceId |-> videoDevices[i].deviceId,
                       label |-> CameraLabel(videoDevices[i])]]
    IN  selectedCameraEffect(s,
            [s EXCEPT
                !.enumState = "done",
                !.cameras = listed,
                !.selectedCamera = IF Len(videoDevices) > 0
                                   THEN videoDevices[Len(videoDevices)].deviceId
                                   ELSE @])

\* getCameras after enumerateDevices() resolved with devices
getCamerasResolved(s, devices) ==
    LET videoDevices == SelectSeq(devices, IsVideoInput)
        listed == [i \in 1..Len(videoDevices) |->
                      [deviceId |-> videoDevices[i].deviceId,
                       label |-> CameraLabel(videoDevices[i])]]
    IN  selectedCameraEffect(s,
            [s EXCEPT
                !.enumState = "done",
                !.cameras = listed,
                !.selectedCamera = IF Len(videoDevices) > 0
                                   THEN videoDevices[1].deviceId
                                   ELSE @])

\* getCamerasRejected with the setError forgotten
getCamerasRejectedSilently(s) == [s EXCEPT !.enumState = "failed"]

\* getCameras after enumerateDevices() threw
getCamerasRejected(s) ==
    [s EXCEPT !.enumState = "failed", !.error = EnumerateFailed]

\* onChange of the <select>, then the render and its effect
selectDevice(s, deviceId) ==
    selectedCameraEffect(s, [s EXCEPT !.selectedCamera = deviceId])

\* NegotiatedBounds with the width's fallback used for the height too
NegotiatedBoundsOneFallback(reply) ==
    [width |-> IF reply.width # NoMax THEN reply.width ELSE IdealWidth,
     height |-> IF reply.height # NoMax THEN reply.height ELSE IdealWidth]

\* capabilities.width.max || 1920, capabilities.height.max || 1080
NegotiatedBounds(reply) ==
    [width |-> IF reply.width # NoMax THEN reply.width ELSE IdealWidth,
     height |-> IF reply.height # NoMax THEN reply.height ELSE IdealHeight]

\* startCameraResolved with setIsLoading(false) at the end of the try block
\* instead of in a finally: a throw skips it
startCameraResolvedNoFinally(s, r, reply) ==
    LET mediaStream == [id |-> r.id, deviceId |-> r.deviceId,
                        capabilities |-> reply]
    IN  [s EXCEPT
            !.pending = @ \ {r},
            !.live = @ \cup {r.id},
            !.stream = mediaStream,
            !.videoSrc = IF VideoMounted(s) THEN mediaStream ELSE @,
            !.cameraCapabilities =
                IF /\ ~reply.throws
                   /\ reply.width # Absent
                   /\ reply.height # Absent
                THEN NegotiatedBounds(reply)
                ELSE @,
            !.error = IF reply.throws THEN StartFailed ELSE @,
            !.isLoading = IF reply.throws THEN @ ELSE FALSE]

\* startCamera after getUserMedia resolved request r with a stream whose
\* track answers getCapabilities() with reply
startCameraResolved(s, r, reply) ==
    LET mediaStream == [id |-> r.id, deviceId |-> r.deviceId,
                        capabilities |-> reply]
    IN  [s EXCEPT
            !.pending = @ \ {r},
            !.live = @ \cup {r.id},
            !.stream = mediaStream,
            !.videoSrc = IF VideoMounted(s) THEN mediaStream ELSE @,
            !.cameraCapabilities =
                IF /\ ~reply.throws
                   /\ reply.width # Absent
                   /\ reply.height # Absent
                THEN NegotiatedBounds(reply)
                ELSE @,
            !.error = IF reply.throws THEN StartFailed ELSE @,
            !.isLoading = FALSE]

\* startCamera after getUserMedia rejected request r
startCameraRejected(s, r) ==
    [s EXCEPT !.pending = @ \ {r}, !.error = StartFailed, !.isLoading = FALSE]

\* capturePhoto at host time t; context is whether getContext('2d') gave one
capturePhoto(s, context, t) ==
    IF ~VideoMounted(s) \/ s.stream = NoStream \/ ~context
    THEN s
    ELSE LET size == IF s.cameraCapabilities # NoCaps
                     THEN s.cameraCapabilities
                     ELSE VideoSize(s.videoSrc)
         IN  [s EXCEPT
                 !.capturedImage = [width |-> size.width,
                                    height |-> size.height,
                                    frameTime |-> t],
                 !.videoSrc = NoStream]

\* downloadPhoto naming the file after the time of the captured frame
downloadPhotoAtCaptureTime(s, t) ==
    IF s.capturedImage = NoImage
    THEN s
    ELSE [s EXCEPT !.link = [download |-> DownloadName(s.capturedImage.frameTime),
                             href |-> s.capturedImage]]

\* downloadPhoto at host time t
downloadPhoto(s, t) ==
    IF s.capturedImage = NoImage
    THEN s
    ELSE [s EXCEPT !.link = [download |-> DownloadName(t),
                             href |-> s.capturedImage]]

\* retakePhoto releasing the stream handle as stopCamera does
retakePhotoDropsStream(s) ==
    [s EXCEPT !.capturedImage = NoImage, !.stream = NoStream]

retakePhoto(s) == [s EXCEPT !.capturedImage = NoImage]

\* stopCamera clearing the image only when there is no stream to stop
stopCameraElseClear(s) ==
    IF s.stream # NoStream
    THEN [StopTracks(s, s.stream) EXCEPT !.stream = NoStream]
    ELSE [s EXCEPT !.capturedImage = NoImage]

stopCamera(s) ==
    LET stopped == IF s.stream # NoStream
                   THEN [StopTracks(s, s.stream) EXCEPT !.stream = NoStream]
                   ELSE s
    IN  [stopped EXCEPT !.capturedImage = NoImage]

-----------------------------------------------------------------------------
(* What the rendered UI offers *)

OptionValues == { cameras[i].deviceId : i \in 1..Len(cameras) }

TakePhotoEnabled == capturedImage = NoImage /\ stream # NoStream /\ ~isLoading

\* Stop Camera rendered next to the photo too
StopCameraAlwaysRendered == stream # NoStream

StopCameraEnabled == capturedImage = NoImage /\ stream # NoStream

PhotoShown == capturedImage # NoImage

LaterTimes == { t \in Times : t >= clock }

-----------------------------------------------------------------------------
(* Actions *)

EnumerateResolves ==
    /\ enumState = "pending"
    /\ \E devices \in HostDeviceLists :
          /\ Commit(getCamerasResolved(Session, devices))
          /\ reported' = devices
    /\ UNCHANGED <<clock, sinceStop>>

EnumerateRejects ==
    /\ enumState = "pending"
    /\ Commit(getCamerasRejected(Session))
    /\ UNCHANGED <<clock, reported, sinceStop>>

\* the <select> fires onChange only for an option other than the shown one
SelectDevice ==
    /\ nextReq < MaxRequests
    /\ \E deviceId \in OptionValues \ {selectedCamera} :
          Commit(selectDevice(Session, deviceId))
    /\ sinceStop' = FALSE
    /\ UNCHANGED <<clock, reported>>

StreamResolves ==
    /\ \E r \in pending : \E reply \in CapabilityReplies :
          Commit(startCameraResolved(Session, r, reply))
    /\ UNCHANGED <<clock, reported, sinceStop>>

StreamRejects ==
    /\ \E r \in pending : Commit(startCameraRejected(Session, r))
    /\ UNCHANGED <<clock, reported, sinceStop>>

TakePhoto ==
    /\ TakePhotoEnabled
    /\ \E t \in LaterTimes :
          /\ Commit(capturePhoto(Session, TRUE, t))
          /\ clock' = t
    /\ UNCHANGED <<reported, sinceStop>>

DownloadPhoto ==
    /\ PhotoShown
    /\ \E t \in LaterTimes :
          /\ Commit(downloadPhoto(Session, t))
          /\ clock' = t
    /\ UNCHANGED <<reported, sinceStop>>

RetakePhoto ==
    /\ PhotoShown
    /\ Commit(retakePhoto(Session))
    /\ UNCHANGED <<clock, reported, sinceStop>>

StopCamera ==
    /\ StopCameraEnabled
    /\ Commit(stopCamera(Session))
    /\ sinceStop' = TRUE
    /\ UNCHANGED <<clock, reported>>

Init ==
    /\ enumState = "pending"
    /\ cameras = <<>>
    /\ selectedCamera = EmptyString
    /\ stream = NoStream
    /\ capturedImage = NoImage
    /\ isLoading = FALSE
    /\ error = NoError
    /\ cameraCapabilities = NoCaps
    /\ videoSrc = NoStream
    /\ pending = {}
    /\ live = {}
    /\ nextReq = 0
    /\ link = NoLink
    /\ clock = 0
    /\ reported = <<>>
    /\ sinceStop = FALSE

Next ==
    \/ EnumerateResolves
    \/ EnumerateRejects
    \/ SelectDevice
    \/ StreamResolves
    \/ StreamRejects
    \/ TakePhoto
    \/ DownloadPhoto
    \/ RetakePhoto
    \/ StopCamera

Spec == Init /\ [][Next]_vars

-----------------------------------------------------------------------------
(* Properties *)

HasLiveStream == stream # NoStream /\ stream.id \in live

ThrowingReply == [throws |-> TRUE, width |-> Absent, height |-> Absent]

\* the first n characters of a string, all of it if it is shorter
FirstChars(str, n) == [i \in 1..Min(n, Len(str)) |-> str[i]]

\* C1: at no time do two host streams have live tracks, and every stream
\* that is not the session's current stream has had its tracks stopped.
C1_OnlyTheActiveStreamIsLive ==
    /\ Cardinality(live) <= 1
    /\ live \subseteq (IF stream = NoStream THEN {} ELSE {stream.id})

\* the state a failed startCamera must leave behind, coming from the current one
FailedStartLeaves(after) ==
    /\ after.error = StartFailed
    /\ after.isLoading = FALSE
    /\ after.stream = NoStream
    /\ after.selectedCamera = selectedCamera

\* C2: whenever a startCamera ends in failure (the host rejects the request,
\* or a step after the stream was stored throws), the error is the
\* stream-failure message, isLoading is false, no stream is held and the
\* selection is unchanged.
C2_FailedStartHoldsNoStream ==
    \A r \in pending :
        /\ FailedStartLeaves(startCameraRejected(Session, r))
        /\ FailedStartLeaves(startCameraResolved(Session, r, ThrowingReply))

\* C3: capturePhoto in a state without a live active stream is a no-op: no
\* image is produced and no field of the session changes.
C3_CaptureWithoutLiveStreamIsNoOp ==
    ~HasLiveStream =>
        \A context \in BOOLEAN, t \in LaterTimes :
            capturePhoto(Session, context, t) = Session

\* C4: from a state with a live stream, capturePhoto followed immediately by
\* retakePhoto leaves capturedImage unset and the stream handle, selection,
\* device list, capabilities, isLoading and error as they were.
C4_CaptureThenRetake ==
    HasLiveStream =>
        \A context \in BOOLEAN, t \in LaterTimes :
            LET after == retakePhoto(capturePhoto(Session, context, t))
            IN  /\ after.capturedImage = NoImage
                /\ after.stream = stream
                /\ after.selectedCamera = selectedCamera
                /\ after.cameras = cameras
                /\ after.cameraCapabilities = cameraCapabilities
                /\ after.isLoading = isLoading
                /\ after.error = error

\* a live stream on a freshly mounted, unbound <video>: Retake Photo was
\* clicked on a photo taken from this session
C4_Witness ==
    /\ HasLiveStream
    /\ capturedImage = NoImage
    /\ videoSrc = NoStream
    /\ capturePhoto(Session, TRUE, clock).capturedImage # NoImage

\* C5: stopCamera is idempotent: from every reachable state a second call
\* finds no stream whose tracks it could stop and leaves the state of the
\* first call unchanged.
C5_StopCameraIdempotent ==
    LET once == stopCamera(Session)
        twice == stopCamera(once)
    IN  /\ once.stream = NoStream
        /\ twice.live = once.live
        /\ twice = once

\* Stop Camera was clicked: no stream is held, none is live, and the <video>
\* still shows the stopped one
C5_Witness ==
    /\ stream = NoStream
    /\ videoSrc # NoStream
    /\ live = {}
    /\ pending = {}

\* C6: an image produced by capturePhoto has the negotiated bounds of the
\* stream that is active at capture time, and the native size of the preview
\* only when that stream has no known bounds.
C6_ImageSizedToActiveStream ==
    \A t \in LaterTimes :
        LET after == capturePhoto(Session, TRUE, t)
        IN  after.capturedImage # capturedImage =>
                LET reply == stream.capabilities
                    known == /\ ~reply.throws
                             /\ reply.width # Absent
                             /\ reply.height # Absent
                    expected == IF known
                                THEN NegotiatedBounds(reply)
                                ELSE VideoSize(videoSrc)
                IN  /\ after.capturedImage.width = expected.width
                    /\ after.capturedImage.height = expected.height

\* the device list shown for the devices the host reported, with the given
\* label for a camera the host does not label
ListedAs(devices, Fallback(_)) ==
    LET videoDevices == SelectSeq(devices, IsVideoInput)
    IN  /\ Len(cameras) = Len(videoDevices)
        /\ \A i \in 1..Len(videoDevices) :
              /\ cameras[i].deviceId = videoDevices[i].deviceId
              /\ cameras[i].label =
                    IF videoDevices[i].label = EmptyString
                    THEN Fallback(videoDevices[i].deviceId)
                    ELSE videoDevices[i].label

LabelAsClaimed(deviceId) == LabelPrefix \o FirstChars(deviceId, 8)

LabelWithEllipsis(deviceId) ==
    LabelPrefix \o FirstChars(deviceId, 8) \o <<".", ".", ".">>

\* C7 as claimed: after listing, a camera without a host label is labelled
\* exactly "Camera " followed by the first 8 characters of its deviceId, a
\* labelled camera keeps its label, and the order is the host's.
C7_FallbackLabelAsClaimed ==
    enumState = "done" => ListedAs(reported, LabelAsClaimed)

\* C7 as amended: after listing, a camera without a host label is labelled
\* "Camera " followed by the first 8 characters of its deviceId (all of a
\* shorter one) followed by "...", a labelled camera keeps its label, and the
\* cameras are in the host's order.
C7_FallbackLabelWithEllipsis ==
    enumState = "done" => ListedAs(reported, LabelWithEllipsis)

\* the list shows "Camera a..." and "Camera abcdefgh..."
C7_Witness ==
    /\ enumState = "done"
    /\ \E i, j \in 1..Len(cameras) :
          /\ cameras[i].label = LabelPrefix \o <<"a", ".", ".", ".">>
          /\ cameras[j].deviceId = IdLong
          /\ cameras[j].label =
                LabelPrefix \o <<"a", "b", "c", "d", "e", "f", "g", "h">>
                    \o <<".", ".", ".">>

\* C8: when the listing completes with a non-empty camera list and nothing
\* selected, the first listed camera becomes selected; with an empty list, or
\* with a camera already selected, the selection is unchanged.
C8_AutoSelectsFirst ==
    enumState = "pending" =>
        \A devices \in HostDeviceLists :
            LET after == getCamerasResolved(Session, devices)
                videoDevices == SelectSeq(devices, IsVideoInput)
            IN  /\ (Len(videoDevices) > 0 /\ selectedCamera = EmptyString)
                      => after.selectedCamera = videoDevices[1].deviceId
                /\ (Len(videoDevices) = 0 \/ selectedCamera # EmptyString)
                      => after.selectedCamera = selectedCamera

\* two cameras are listed, the first is selected, and the only stream
\* request so far is the one that selection started
C8_Witness ==
    /\ enumState = "done"
    /\ Len(cameras) = 2
    /\ selectedCamera = cameras[1].deviceId
    /\ nextReq = 1

\* C9: if the device query throws, the error is the enumeration-failure
\* message, the device list stays empty, nothing is selected and no stream
\* request is ever issued.
C9_EnumerationFailure ==
    enumState = "failed" =>
        /\ error = EnumerateFailed
        /\ cameras = <<>>
        /\ selectedCamera = EmptyString
        /\ nextReq = 0
        /\ pending = {}
        /\ stream = NoStream

C9_Witness == enumState = "failed" /\ error = EnumerateFailed

\* camera-capture-<date>T<hh>-<mm>-<ss>.png of a host time
NameForTime(t) ==
    <<"c", "a", "m", "e", "r", "a", "-", "c", "a", "p", "t", "u", "r", "e", "-",
      "1", "9", "7", "0", "-", "0", "1", "-", "0", "1", "T">>
        \o Pad2(t \div 3600000) \o <<"-">>
        \o Pad2((t \div 60000) % 60) \o <<"-">>
        \o Pad2((t \div 1000) % 60)
        \o <<".", "p", "n", "g">>

\* C10 as claimed: a download at any time after a capture at time T names the
\* file after T, colons replaced by hyphens.
C10_NamedAfterCaptureTime ==
    capturedImage # NoImage =>
        \A t \in LaterTimes :
            downloadPhoto(Session, t).link.download
                = NameForTime(capturedImage.frameTime)

\* C10 as amended: a download names the file after the time of the download
\* call, to the second, colons replaced by hyphens.
C10_NamedAfterDownloadTime ==
    capturedImage # NoImage =>
        \A t \in LaterTimes :
            LET after == downloadPhoto(Session, t)
            IN  /\ after.link.download = NameForTime(t)
                /\ after.link.href = capturedImage

\* a photo was downloaded later than it was captured, under the later name
C10_Witness ==
    /\ link # NoLink
    /\ link.href.frameTime < clock
    /\ link.download = NameForTime(clock)
    /\ link.download # NameForTime(link.href.frameTime)

\* the request a startCamera issued in the step, if it issued one
IssuedRequests == pending' \ pending

AnsweredRequests == pending \ pending'

\* C11: every startCamera sets isLoading and clears the error before it
\* issues its request, and every answer of the host to a request (a stream,
\* a stream whose getCapabilities() throws, a rejection) sets isLoading false.
C11_LoadingBracketsTheRequest ==
    [][ /\ IssuedRequests # {} => (isLoading' = TRUE /\ error' = NoError)
        /\ AnsweredRequests # {} => isLoading' = FALSE ]_vars

\* the host answered the only request with a stream whose getCapabilities()
\* threw: the failure is reported and isLoading is false again
C11_Witness ==
    /\ nextReq = 1
    /\ pending = {}
    /\ stream # NoStream
    /\ stream.capabilities.throws
    /\ error = StartFailed
    /\ isLoading = FALSE

\* the session after selectDevice(deviceId) holds a new request for deviceId
\* and the stream held before has no live track
RestartsStreamFor(after, deviceId) ==
    /\ after.pending # pending
    /\ after.pending = pending \cup {[id |-> nextReq + 1, deviceId |-> deviceId]}
    /\ stream # NoStream => stream.id \notin after.live

\* C12 as claimed: every selectDevice(d) records d and starts a stream for d,
\* also when d is the device already selected.
C12_EverySelectionRestarts ==
    \A deviceId \in OptionValues :
        LET after == selectDevice(Session, deviceId)
        IN  /\ after.selectedCamera = deviceId
            /\ RestartsStreamFor(after, deviceId)

\* C12 as amended: selectDevice(d) records d; for a d other than the current
\* selection it stops the held stream and requests a stream for d, and for
\* the d already selected it changes nothing and requests nothing.
C12_OnlyANewSelectionRestarts ==
    \A deviceId \in OptionValues :
        LET after == selectDevice(Session, deviceId)
        IN  /\ after.selectedCamera = deviceId
            /\ deviceId # selectedCamera => RestartsStreamFor(after, deviceId)
            /\ deviceId = selectedCamera => after = Session

\* the second camera was selected while the first one's stream was held: its
\* tracks are stopped and the request for the second camera is out
C12_Witness ==
    /\ Len(cameras) = 2
    /\ selectedCamera = cameras[2].deviceId
    /\ pending = {[id |-> 2, deviceId |-> selectedCamera]}
    /\ stream # NoStream
    /\ stream.id \notin live

KnownBounds(reply) ==
    ~reply.throws /\ reply.width # Absent /\ reply.height # Absent

\* C13: cameraCapabilities is set only while a stream is held, and then it
\* holds the bounds of that stream.
C13_CapabilitiesOfTheActiveStream ==
    /\ stream = NoStream => cameraCapabilities = NoCaps
    /\ cameraCapabilities # NoCaps =>
          /\ stream # NoStream
          /\ KnownBounds(stream.capabilities)
          /\ cameraCapabilities = NegotiatedBounds(stream.capabilities)

\* the host's max of a dimension, the ideal where it reports none
MaxOr(reported_max, ideal) == IF reported_max = NoMax THEN ideal ELSE reported_max

\* C14 as claimed: after every successful start the capabilities are the
\* host's maxima, 1920 resp. 1080 where the host reports no max, also when it
\* reports no width/height capability at all.
C14_AlwaysPopulated ==
    \A r \in pending : \A reply \in CapabilityReplies :
        ~reply.throws =>
            LET after == startCameraResolved(Session, r, reply)
            IN  after.cameraCapabilities =
                    [width |-> IF reply.width = Absent
                               THEN 1920 ELSE MaxOr(reply.width, 1920),
                     height |-> IF reply.height = Absent
                                THEN 1080 ELSE MaxOr(reply.height, 1080)]

\* C14 as amended: after a successful start whose stream reports a width and
\* a height capability the capabilities are the host's maxima, 1920 resp.
\* 1080 where it reports no max; when the stream reports no width/height
\* capability the capabilities are left as they were.
C14_PopulatedWhenReported ==
    \A r \in pending : \A reply \in CapabilityReplies :
        ~reply.throws =>
            LET after == startCameraResolved(Session, r, reply)
            IN  after.cameraCapabilities =
                    IF reply.width # Absent /\ reply.height # Absent
                    THEN [width |-> MaxOr(reply.width, 1920),
                          height |-> MaxOr(reply.height, 1080)]
                    ELSE cameraCapabilities

\* the held stream reports a width max and no height max, and the
\* capabilities are 1280 x 1080
C14_Witness ==
    /\ stream # NoStream
    /\ stream.capabilities.width = 1280
    /\ stream.capabilities.height = NoMax
    /\ cameraCapabilities = [width |-> 1280, height |-> 1080]

\* C15: when startCamera issues a request, the stream the session held at
\* entry has no live track any more: no request goes out while the held
\* stream is live.
C15_TeardownBeforeRequest ==
    [][ IssuedRequests # {} =>
            /\ stream' = stream
            /\ stream # NoStream => stream.id \notin live' ]_vars

\* a request is out and the stream held since before it is stopped
C15_Witness ==
    /\ pending # {}
    /\ stream # NoStream
    /\ stream.id \notin live
    /\ \A r \in pending : r.id > stream.id

\* C16: with a stream held, no image shown and no request in flight, the
\* preview <video> plays the held stream.
C16_PreviewBoundToActiveStream ==
    (stream # NoStream /\ capturedImage = NoImage /\ pending = {})
        => videoSrc = stream

\* C18: with no request in flight, a held stream is a stream of the selected
\* device.
C18_StreamOfTheSelectedDevice ==
    (pending = {} /\ stream # NoStream) => stream.deviceId = selectedCamera

\* C20: isLoading is true while a request is in flight.
C20_LoadingWhileRequestInFlight == pending # {} => isLoading = TRUE

\* C19: from stopCamera until the next selection no stream is held and no
\* host stream has a live track.
C19_NothingLiveAfterStop == sinceStop => (stream = NoStream /\ live = {})

\* what the component renders: the photo, the "Starting camera..." overlay,
\* the preview of a held stream, or an empty preview (after Stop Camera, or
\* with no stream yet)
Mode ==
    IF capturedImage # NoImage THEN "Captured"
    ELSE IF isLoading THEN "Starting"
    ELSE IF stream # NoStream THEN "Live"
    ELSE IF sinceStop THEN "Stopped"
    ELSE "NoStream"

ClaimedTransitions ==
    { <<"NoStream", "Starting">>, <<"Starting", "Live">>,
      <<"Starting", "NoStream">>, <<"Live", "Captured">>,
      <<"Captured", "Live">>, <<"Live", "Starting">>,
      <<"Live", "Stopped">>, <<"Captured", "Stopped">> }

\* C17 as claimed: every change of mode is one of NoStream->Starting,
\* Starting->Live, Starting->NoStream, Live->Captured, Captured->Live,
\* Live->Starting, Live->Stopped, Captured->Stopped.
C17_TransitionsAsClaimed ==
    [][Mode' # Mode => <<Mode, Mode'>> \in ClaimedTransitions]_vars

\* C17 as amended: every change of mode is one of the claimed ones other
\* than Captured->Stopped, or Stopped->Starting (a selection after Stop
\* Camera), Captured->Starting (Retake Photo during a start),
\* Starting->Stopped (Stop Camera during a start, which then fails),
\* NoStream->Live or Stopped->Live (a request answered after the mode was
\* left); Stop Camera is not offered while the photo is shown.
C17_TransitionsOfTheCode ==
    [][ /\ Mode' # Mode =>
              <<Mode, Mode'>> \in
                  (ClaimedTransitions \ {<<"Captured", "Stopped">>})
                      \cup { <<"Stopped", "Starting">>, <<"Captured", "Starting">>,
                             <<"Starting", "Stopped">>, <<"NoStream", "Live">>,
                             <<"Stopped", "Live">> }
        /\ Mode = "Captured" => ~StopCameraEnabled ]_vars

\* Stop Camera was clicked on the live preview: the preview still holds the
\* stopped stream and nothing is held, loading or shown
C17_Witness ==
    /\ Mode = "Stopped"
    /\ videoSrc # NoStream
    /\ pending = {}

====
